---- MODULE Spec2Model ----
(***************************************************************************)
(* elasdx: index template updating, reindexing, alias swapping and         *)
(* retention cleanup against an ElasticSearch cluster.                     *)
(*                                                                         *)
(* The cluster (templates, indices with their settings, aliases and        *)
(* documents) is the shared state.  Every cluster call of the Go code is   *)
(* one atomic step; a command of the CLI is a sequence of such steps held  *)
(* in the record run[p] of the process p that executes it.                 *)
(*                                                                         *)
(* Strings are sequences of byte codes, so that strings.HasPrefix,         *)
(* strings.TrimSuffix and sort.Strings are computed as Go computes them.   *)
(***************************************************************************)
EXTENDS Integers, Sequences, FiniteSets, TLC

VARIABLES
    indices,    \* cluster: index name -> [aliases, refresh_interval, number_of_replicas, allocation, docs]
    templates,  \* cluster: template name -> stored template body
    files,      \* file system: template name -> body of <name>.json
    clock,      \* wall clock, in seconds
    budget,     \* number of commands that may still be started
    run         \* process -> the command it executes (position, arguments, locals, calls issued)

vars == <<indices, templates, files, clock, budget, run>>

(***************************************************************************)
(* Bounds                                                                  *)
(***************************************************************************)
MaxCmds == 1
MaxClock == 1

Procs == {1, 2}

(***************************************************************************)
(* Strings                                                                 *)
(***************************************************************************)
Chr == [dot |-> 46, dash |-> 45, zero |-> 48, a |-> 97, d |-> 100, h |-> 104,
        j |-> 106, n |-> 110, o |-> 111, s |-> 115, t |-> 116, x |-> 120]

Empty == << >>

DotJson == <<Chr.dot, Chr.j, Chr.s, Chr.o, Chr.n>>

\* strings.HasPrefix
HasPrefix(s, prefix) ==
    /\ Len(prefix) <= Len(s)
    /\ SubSeq(s, 1, Len(prefix)) = prefix

\* strings.HasSuffix
HasSuffix(s, suffix) ==
    /\ Len(suffix) <= Len(s)
    /\ SubSeq(s, Len(s) - Len(suffix) + 1, Len(s)) = suffix

\* strings.TrimSuffix
TrimSuffix(s, suffix) ==
    IF HasSuffix(s, suffix) THEN SubSeq(s, 1, Len(s) - Len(suffix)) ELSE s

\* Go's string comparison s < t: bytewise lexicographic
StrLess(s, t) ==
    \E k \in 0..Len(s) :
        /\ k <= Len(t)
        /\ SubSeq(s, 1, k) = SubSeq(t, 1, k)
        /\ \/ k = Len(s) /\ k < Len(t)
           \/ k < Len(s) /\ k < Len(t) /\ s[k + 1] < t[k + 1]

\* the least string of a non-empty set
MinStr(S) == CHOOSE s \in S : \A t \in S : t = s \/ StrLess(s, t)

\* sort.Strings: the names in ascending order (index names are distinct)
RECURSIVE SortSet(_)
SortSet(S) == IF S = {} THEN << >> ELSE <<MinStr(S)>> \o SortSet(S \ {MinStr(S)})

\* a rendering that does not move with the clock
FormatTime_Frozen(c) == <<Chr.zero, Chr.zero>>

\* time.Now().Format("2006-01-02-15:04:05") with ":" replaced by "-":
\* a fixed-width rendering of the clock
FormatTime(c) == <<Chr.zero + ((c \div 10) % 10), Chr.zero + (c % 10)>>

\* fmt.Sprintf("%s-%s", a, b)
SprintfDash(a, b) == a \o <<Chr.dash>> \o b

(***************************************************************************)
(* Names of the model's universe                                           *)
(***************************************************************************)
\* template (= alias) names: "t" and "t-a"
T == <<Chr.t>>
TA == SprintfDash(T, <<Chr.a>>)
AliasNames == {T, TA}

\* file name of a template
JsonFile(name) == name \o DotJson

\* directory listings as ioutil.ReadDir returns them (sorted by file name):
\* ".h" (hidden), "d" (a sub-directory), "t-a.json", "t.json"
Entry(name, isDir) == [name |-> name, isDir |-> isDir]
Dirs ==
    { << Entry(<<Chr.dot, Chr.h>>, FALSE), Entry(<<Chr.d>>, TRUE),
         Entry(JsonFile(TA), FALSE), Entry(JsonFile(T), FALSE) >> }

\* --extra-suffix values, "" meaning not given
ExtraSuffixes == {Empty, <<Chr.x>>}

\* --url of a remote source cluster, "" meaning none
RemoteHost == <<Chr.h>>

\* host allocation patterns of --reindex-host-allocation and --dest-host-allocation
ReindexHosts == "es-reindex-*"
DestHosts == "es-data-*"

\* index name generated at clock c (elasdx.go:53-59)
GenIndexName(index, c, extraSuffix) ==
    LET dateSuffix == IF extraSuffix # Empty
                      THEN SprintfDash(FormatTime(c), extraSuffix)
                      ELSE FormatTime(c)
    IN  SprintfDash(index, dateSuffix)

\* --dest-index values: a name equal to a generated one, and a foreign one ("o")
DestNames == {GenIndexName(T, 0, Empty), <<Chr.o>>}

(***************************************************************************)
(* Template bodies: the part of the JSON document the tool reads back.     *)
(* hasIndex: the settings hold an "index" block; a key of the block is     *)
(* "absent" or its (string) value.                                         *)
(***************************************************************************)
Body(hasIndex, ri, nr) ==
    [hasIndex |-> hasIndex, refresh_interval |-> ri, number_of_replicas |-> nr]
Bodies ==
    { Body(TRUE, "10s", "1"),
      Body(TRUE, "absent", "absent"),
      Body(FALSE, "absent", "absent") }

(***************************************************************************)
(* The cluster: the calls of the olivere/elastic client the tool uses      *)
(***************************************************************************)
IndexNames == DOMAIN indices

\* client.Aliases().Alias(alias): the indices associated with the alias
IndicesByAlias(ix, alias) == {i \in DOMAIN ix : alias \in ix[i].aliases}

\* a JSON value of a settings body: null or a quoted string
JsonNull == <<"null">>
JsonString(v) == <<"string", v>>
\* what the cluster stores for it: null resets the setting to its default
SettingValue(tok) == IF tok = JsonNull THEN "default" ELSE tok[2]

\* the settings a new index takes from the stored templates: a template named n
\* carries the index pattern "n-*" (README.md:150-151); the most specific one wins
TemplateValue(tp, name, key) ==
    LET declaring == {n \in DOMAIN tp : /\ HasPrefix(name, SprintfDash(n, Empty))
                                        /\ tp[n].hasIndex
                                        /\ tp[n][key] # "absent"}
    IN  IF declaring = {}
        THEN "default"
        ELSE tp[CHOOSE n \in declaring : \A m \in declaring : Len(m) <= Len(n)][key]

NewIndex(tp, name) ==
    [aliases |-> {},
     refresh_interval |-> TemplateValue(tp, name, "refresh_interval"),
     number_of_replicas |-> TemplateValue(tp, name, "number_of_replicas"),
     allocation |-> "default",
     docs |-> {}]

\* client.CreateIndex(name)
ES_CreateIndex(ix, tp, name) ==
    [i \in DOMAIN ix \cup {name} |-> IF i = name THEN NewIndex(tp, name) ELSE ix[i]]

\* client.IndexPutSettings(name).BodyString(body): body maps setting keys to JSON values
ES_PutSettings(ix, name, body) ==
    LET old == ix[name]
        Put(key) == IF key \in DOMAIN body THEN SettingValue(body[key]) ELSE old[key]
    IN  [ix EXCEPT ![name] =
            [old EXCEPT !.refresh_interval = Put("refresh_interval"),
                        !.number_of_replicas = Put("number_of_replicas"),
                        !.allocation = Put("allocation")]]

\* the old index deleted instead of un-aliased
ES_AliasRemove_DeletesIndex(ix, index, alias) ==
    [i \in DOMAIN ix \ {index} |-> ix[i]]

\* client.Alias().Remove(index, alias)
ES_AliasRemove(ix, index, alias) ==
    [ix EXCEPT ![index].aliases = @ \ {alias}]

\* client.Alias().Add(index, alias)
ES_AliasAdd(ix, index, alias) ==
    [ix EXCEPT ![index].aliases = @ \cup {alias}]

\* client.DeleteIndex(name): the index goes with its aliases, settings and documents
ES_DeleteIndex(ix, name) == [i \in DOMAIN ix \ {name} |-> ix[i]]

\* client.Reindex(): copies the source's documents; creates the destination when missing
ES_Reindex(ix, tp, srcDocs, dst) ==
    LET base == IF dst \in DOMAIN ix THEN ix ELSE ES_CreateIndex(ix, tp, dst)
    IN  [base EXCEPT ![dst].docs = @ \cup srcDocs]

\* the documents of the remote cluster's index
RemoteDocs == {"r1"}

(***************************************************************************)
(* A process: the command it runs                                          *)
(***************************************************************************)
\* one cluster call: res is "ok", "notfound" (404 of an alias lookup) or "fail";
\* fn is the function of elasdx.go that issues it; ret is what the call answered
\* (the indices of an alias, the index names, the index found to exist) or, for
\* IndexPutTemplate, the time.Now() the index name is then generated from (none
\* when the name is given), the resolved name being arg
Call(fn, op, target, arg, res, ret) ==
    [fn |-> fn, op |-> op, target |-> target, arg |-> arg, res |-> res, ret |-> ret]

IdleRun ==
    [pc |-> "idle", cmd |-> "none", result |-> "none", calls |-> << >>,
     \* flags of the command line
     newIndexName |-> Empty, bulkIndexing |-> FALSE, noUpdateAlias |-> FALSE,
     extraSuffix |-> Empty, remoteSrc |-> Empty,
     reindexHostAllocation |-> FALSE, destHostAllocation |-> FALSE, maxHistory |-> 0,
     \* directory mode
     dir |-> << >>, dirTodo |-> << >>, aliasToNewIndex |-> << >>, mapTodo |-> {},
     \* UpdateTemplateAndCreateNewIndex, ReindexOne, UpdateAlias
     index |-> Empty, alias |-> Empty, newIndex |-> Empty,
     indicesFromAlias |-> {}, seconds |-> JsonNull, replicas |-> JsonNull,
     \* CleanupOne
     matches |-> << >>, i |-> 0]

\* the run after issuing call c
Issued(r, c) == [r EXCEPT !.calls = Append(@, c)]

\* a failed call that is logged and not returned on: the step is tried again
Failed_Continues(r, c) == Issued(r, c)

\* a call failed: the error propagates up to the command, which exits
Failed(r, c) == [Issued(r, c) EXCEPT !.pc = "done", !.result = "error"]

\* the command ends
Finished(r, result) == [r EXCEPT !.pc = "done", !.result = result]

\* reindex command lines: the flags of cli Reindex()
ReindexFlags(bulk, noUpdate, dest, suffix, remote, rAlloc, dAlloc) ==
    [bulkIndexing |-> bulk, noUpdateAlias |-> noUpdate, newIndexName |-> dest,
     extraSuffix |-> suffix, remoteSrc |-> remote,
     reindexHostAllocation |-> rAlloc, destHostAllocation |-> dAlloc]

ReindexCommandLines ==
    {ReindexFlags(b, n, Empty, Empty, Empty, FALSE, FALSE) : b \in BOOLEAN, n \in BOOLEAN}
    \cup {ReindexFlags(FALSE, FALSE, d, Empty, Empty, FALSE, FALSE) : d \in DestNames}
    \cup {ReindexFlags(FALSE, FALSE, Empty, s, Empty, FALSE, FALSE) : s \in ExtraSuffixes}
    \cup {ReindexFlags(FALSE, n, Empty, Empty, RemoteHost, FALSE, FALSE) : n \in BOOLEAN}
    \cup {ReindexFlags(FALSE, FALSE, Empty, Empty, Empty, TRUE, TRUE)}

WithFlags(r, f) ==
    [r EXCEPT !.bulkIndexing = f.bulkIndexing, !.noUpdateAlias = f.noUpdateAlias,
              !.newIndexName = f.newIndexName, !.extraSuffix = f.extraSuffix,
              !.remoteSrc = f.remoteSrc,
              !.reindexHostAllocation = f.reindexHostAllocation,
              !.destHostAllocation = f.destHostAllocation]

\* --max-history values (default 2)
MaxHistories == {-1, 0, 1, 2}

\* a command may start: the process is idle and, commands running one at a time,
\* no other process is in the middle of one
MayStart(p) ==
    /\ budget > 0
    /\ run[p].pc = "idle"
    /\ \A q \in Procs \ {p} : run[q].pc \in {"idle", "done"}

Cluster == <<indices, templates>>

(***************************************************************************)
(* cli Reindex(), single template file (cli Reindex(), "Single index")     *)
(***************************************************************************)
EnterProvision(r, fileName) ==
    [r EXCEPT !.pc = "put_template", !.index = TrimSuffix(fileName, DotJson)]

EnterReindexOne(r, alias, newIndex) ==
    [r EXCEPT !.pc = "alias_lookup", !.alias = alias, !.newIndex = newIndex,
              !.indicesFromAlias = {}]

EnterUpdateAlias(r, alias, newIndex) ==
    [r EXCEPT !.pc = "ua_index_exists", !.alias = alias, !.newIndex = newIndex,
              !.indicesFromAlias = {}]

\* sub-directories not skipped
RECURSIVE SkipIgnored_HiddenOnly(_)
SkipIgnored_HiddenOnly(entries) ==
    IF entries = << >> THEN << >>
    ELSE IF HasPrefix(Head(entries).name, <<Chr.dot>>)
         THEN SkipIgnored_HiddenOnly(Tail(entries))
         ELSE entries

\* the first entry of a directory listing that is neither hidden nor a directory
RECURSIVE SkipIgnored(_)
SkipIgnored(entries) ==
    IF entries = << >> THEN << >>
    ELSE IF HasPrefix(Head(entries).name, <<Chr.dot>>) \/ Head(entries).isDir
         THEN SkipIgnored(Tail(entries))
         ELSE entries

\* UpdateTemplatesAndCreateNewIndices: the loop over the files of the directory
NextTemplate(r) ==
    LET rest == SkipIgnored(r.dirTodo)
    IN  IF rest = << >>
        THEN [r EXCEPT !.pc = "reindex_all", !.dirTodo = << >>,
                       !.mapTodo = DOMAIN r.aliasToNewIndex]
        ELSE EnterProvision([r EXCEPT !.dirTodo = rest], Head(rest).name)

\* each template reindexed as soon as it is provisioned
ProvisionReturn_ReindexEach(r) == EnterReindexOne(r, r.index, r.newIndexName)

\* UpdateTemplateAndCreateNewIndex returns newIndexName to its caller
ProvisionReturn(r) ==
    IF r.cmd = "provision"
    THEN Finished([r EXCEPT !.newIndex = r.newIndexName], "ok")
    ELSE IF r.cmd = "reindex_file"
    THEN IF r.reindexHostAllocation
         THEN [r EXCEPT !.pc = "reindex_host_allocation", !.newIndex = r.newIndexName]
         ELSE EnterReindexOne(r, r.index, r.newIndexName)
    ELSE LET alias == TrimSuffix(Head(r.dirTodo).name, DotJson)
             m == r.aliasToNewIndex
         IN  NextTemplate(
                [r EXCEPT !.aliasToNewIndex =
                              [a \in DOMAIN m \cup {alias} |->
                                  IF a = alias THEN r.newIndexName ELSE m[a]],
                          !.dirTodo = Tail(@),
                          !.newIndexName = Empty])

\* ReindexOne returns nil to its caller
ReindexOneReturn(r) ==
    IF r.cmd = "reindex_file"
    THEN IF r.destHostAllocation
         THEN [r EXCEPT !.pc = "dest_host_allocation"]
         ELSE Finished(r, "ok")
    ELSE [r EXCEPT !.pc = "reindex_all"]

\* UpdateAlias returns nil to its caller
UpdateAliasReturn(r) ==
    IF r.cmd = "update_alias" THEN Finished(r, "ok") ELSE ReindexOneReturn(r)

BeginReindexFile(p) ==
    /\ \E name \in AliasNames, f \in ReindexCommandLines :
          run' = [run EXCEPT ![p] =
                     EnterProvision([WithFlags(IdleRun, f) EXCEPT !.cmd = "reindex_file"],
                                    JsonFile(name))]
    /\ budget' = budget - 1
    /\ UNCHANGED <<indices, templates, files, clock>>

StartReindexFile(p) == MayStart(p) /\ BeginReindexFile(p)

\* elasdx.go:31-59: read the file, put the template, derive the index name
UpdateTemplateAndCreateNewIndex_PutTemplate(p) ==
    LET r == run[p] IN
    /\ r.pc = "put_template"
    /\ \/ \* ioutil.ReadFile fails: no cluster call is made
          /\ run' = [run EXCEPT ![p] = Finished(r, "error")]
          /\ UNCHANGED <<indices, templates, clock>>
       \/ /\ r.index \in DOMAIN files
          /\ run' = [run EXCEPT ![p] =
                        Failed(r, Call("UpdateTemplateAndCreateNewIndex", "IndexPutTemplate", r.index, Empty, "fail", {}))]
          /\ UNCHANGED <<indices, templates, clock>>
       \/ /\ r.index \in DOMAIN files
          /\ templates' = [n \in DOMAIN templates \cup {r.index} |->
                              IF n = r.index THEN files[n] ELSE templates[n]]
          /\ \E now \in clock..MaxClock :
                LET newIndexName == IF r.newIndexName = Empty
                                    THEN GenIndexName(r.index, now, r.extraSuffix)
                                    ELSE r.newIndexName
                IN  /\ clock' = now
                    /\ run' = [run EXCEPT ![p] =
                          [Issued(r, Call("UpdateTemplateAndCreateNewIndex", "IndexPutTemplate",
                                          r.index, newIndexName, "ok",
                                          IF r.newIndexName = Empty THEN {now} ELSE {}))
                              EXCEPT !.pc = "index_exists", !.newIndexName = newIndexName]]
          /\ UNCHANGED indices
    /\ UNCHANGED <<files, budget>>

\* elasdx.go:79: bulk settings follow the creation when --bulk-indexing is set
AfterCreate(r) ==
    IF r.bulkIndexing THEN [r EXCEPT !.pc = "bulk_settings"] ELSE ProvisionReturn(r)

\* the create call issued whatever IndexExists answered
AfterExists_AlwaysCreate(r, exists) == [r EXCEPT !.pc = "create_index"]

\* elasdx.go:66, 75: the index is created only when it does not exist
AfterExists(r, exists) ==
    IF exists THEN AfterCreate(r) ELSE [r EXCEPT !.pc = "create_index"]

\* elasdx.go:61-66
UpdateTemplateAndCreateNewIndex_IndexExists(p) ==
    LET r == run[p]
        exists == r.newIndexName \in IndexNames
        c(res) == Call("UpdateTemplateAndCreateNewIndex", "IndexExists", r.newIndexName, Empty, res,
                       IF res = "ok" /\ exists THEN {r.newIndexName} ELSE {})
    IN
    /\ r.pc = "index_exists"
    /\ \/ run' = [run EXCEPT ![p] = Failed(r, c("fail"))]
       \/ run' = [run EXCEPT ![p] = AfterExists(Issued(r, c("ok")), exists)]
    /\ UNCHANGED <<indices, templates, files, clock, budget>>

\* elasdx.go:67-74
UpdateTemplateAndCreateNewIndex_CreateIndex(p) ==
    LET r == run[p]
        c(res) == Call("UpdateTemplateAndCreateNewIndex", "CreateIndex", r.newIndexName, Empty, res, {})
    IN
    /\ r.pc = "create_index"
    /\ \/ /\ run' = [run EXCEPT ![p] = Failed(r, c("fail"))]
          /\ UNCHANGED indices
       \/ /\ r.newIndexName \notin IndexNames
          /\ indices' = ES_CreateIndex(indices, templates, r.newIndexName)
          /\ run' = [run EXCEPT ![p] = AfterCreate(Issued(r, c("ok")))]
    /\ UNCHANGED <<templates, files, clock, budget>>

\* the body of elasdx.go:80-86
BulkIndexingSettings ==
    [refresh_interval |-> JsonString("-1"), number_of_replicas |-> JsonString("0")]

\* elasdx.go:79-96
UpdateTemplateAndCreateNewIndex_PutSettings(p) ==
    LET r == run[p]
        c(res) == Call("UpdateTemplateAndCreateNewIndex", "IndexPutSettings", r.newIndexName, Empty, res, {})
    IN
    /\ r.pc = "bulk_settings"
    /\ \/ /\ run' = [run EXCEPT ![p] = Failed(r, c("fail"))]
          /\ UNCHANGED indices
       \/ /\ r.newIndexName \in IndexNames
          /\ indices' = ES_PutSettings(indices, r.newIndexName, BulkIndexingSettings)
          /\ run' = [run EXCEPT ![p] = ProvisionReturn(Issued(r, c("ok")))]
    /\ UNCHANGED <<templates, files, clock, budget>>

\* UpdateHostAllocation (elasdx.go:262-278), called by cli Reindex() before ReindexOne
UpdateHostAllocation_Reindex(p) ==
    LET r == run[p]
        c(res) == Call("UpdateHostAllocation", "IndexPutSettings", r.newIndex, Empty, res, {})
    IN
    /\ r.pc = "reindex_host_allocation"
    /\ \/ /\ run' = [run EXCEPT ![p] = Failed(r, c("fail"))]
          /\ UNCHANGED indices
       \/ /\ r.newIndex \in IndexNames
          /\ indices' = ES_PutSettings(indices, r.newIndex,
                                       [allocation |-> JsonString(ReindexHosts)])
          /\ run' = [run EXCEPT ![p] = EnterReindexOne(Issued(r, c("ok")), r.index, r.newIndex)]
    /\ UNCHANGED <<templates, files, clock, budget>>

\* UpdateHostAllocation (elasdx.go:262-278), called by cli Reindex() after ReindexOne
UpdateHostAllocation_Dest(p) ==
    LET r == run[p]
        c(res) == Call("UpdateHostAllocation", "IndexPutSettings", r.newIndex, Empty, res, {})
    IN
    /\ r.pc = "dest_host_allocation"
    /\ \/ /\ run' = [run EXCEPT ![p] = Failed(r, c("fail"))]
          /\ UNCHANGED indices
       \/ /\ r.newIndex \in IndexNames
          /\ indices' = ES_PutSettings(indices, r.newIndex,
                                       [allocation |-> JsonString(DestHosts)])
          /\ run' = [run EXCEPT ![p] = Finished(Issued(r, c("ok")), "ok")]
    /\ UNCHANGED <<templates, files, clock, budget>>

(***************************************************************************)
(* ReindexOne (elasdx.go:128-216)                                          *)
(***************************************************************************)
\* the condition of elasdx.go:176 with && for ||
RestoreSettings_And(r) == ~r.noUpdateAlias /\ ~r.bulkIndexing

\* elasdx.go:176: the settings are restored unless both flags are set
RestoreSettings(r) == ~r.noUpdateAlias \/ ~r.bulkIndexing

\* elasdx.go:176-215 once the documents are copied
AfterCopy(r) ==
    IF RestoreSettings(r) THEN [r EXCEPT !.pc = "get_template"]
    ELSE IF ~r.noUpdateAlias THEN EnterUpdateAlias(r, r.alias, r.newIndex)
    ELSE ReindexOneReturn(r)

\* the default of elasdx.go:148 used whenever the alias lookup gave nothing
CopySources_AliasDefault(r, reindexingRequired, found) ==
    IF reindexingRequired /\ r.remoteSrc = Empty THEN found ELSE {r.alias}

\* the remote copy made only when the local alias was found
CopySources_RemoteNeedsAlias(r, reindexingRequired, found) ==
    IF reindexingRequired
    THEN IF r.remoteSrc = Empty THEN found ELSE {r.alias}
    ELSE {}

\* elasdx.go:146-153: the sources of the document copy
CopySources(r, reindexingRequired, found) ==
    IF reindexingRequired \/ r.remoteSrc # Empty
    THEN IF r.remoteSrc = Empty THEN found ELSE {r.alias}
    ELSE {}

\* the swap done right after the lookup, before the copy and the restore
AfterLookup_SwapFirst(r, reindexingRequired, found) ==
    IF ~r.noUpdateAlias
    THEN EnterUpdateAlias(r, r.alias, r.newIndex)
    ELSE [r EXCEPT !.pc = "get_template"]

AfterLookup(r, reindexingRequired, found) ==
    LET sources == CopySources(r, reindexingRequired, found)
    IN  IF sources = {}
        THEN AfterCopy(r)
        ELSE [r EXCEPT !.pc = "reindex", !.indicesFromAlias = sources]

\* elasdx.go:133-142
ReindexOne_AliasLookup(p) ==
    LET r == run[p]
        found == IndicesByAlias(indices, r.alias)
        c(res) == Call("ReindexOne", "Aliases", r.alias, Empty, res, IF res = "ok" THEN found ELSE {})
    IN
    /\ r.pc = "alias_lookup"
    /\ \/ run' = [run EXCEPT ![p] = Failed(r, c("fail"))]
       \/ /\ found = {}
          /\ run' = [run EXCEPT ![p] = AfterLookup(Issued(r, c("notfound")), FALSE, {})]
       \/ /\ found # {}
          /\ run' = [run EXCEPT ![p] = AfterLookup(Issued(r, c("ok")), TRUE, found)]
    /\ UNCHANGED <<indices, templates, files, clock, budget>>

\* elasdx.go:153-172: one iteration of the copy loop
ReindexOne_Reindex(p) ==
    LET r == run[p] IN
    /\ r.pc = "reindex"
    /\ \E index \in r.indicesFromAlias :
          LET remote == r.remoteSrc # Empty
              c(res) == Call("ReindexOne", "Reindex", index, r.newIndex, res,
                             IF remote THEN {r.remoteSrc} ELSE {})
              rest == r.indicesFromAlias \ {index}
          IN
          \/ /\ run' = [run EXCEPT ![p] = Failed(r, c("fail"))]
             /\ UNCHANGED indices
          \/ /\ remote \/ (index \in IndexNames /\ index # r.newIndex)
             /\ indices' = ES_Reindex(indices, templates,
                                      IF remote THEN RemoteDocs ELSE indices[index].docs,
                                      r.newIndex)
             /\ run' = [run EXCEPT ![p] =
                   IF rest = {}
                   THEN AfterCopy([Issued(r, c("ok")) EXCEPT !.indicesFromAlias = {}])
                   ELSE [Issued(r, c("ok")) EXCEPT !.indicesFromAlias = rest]]
    /\ UNCHANGED <<templates, files, clock, budget>>

\* elasdx.go:182-190: the JSON value of a setting of the template
TemplateSetting(body, key) ==
    IF body[key] # "absent" THEN JsonString(body[key]) ELSE JsonNull

\* elasdx.go:177-190
ReindexOne_GetTemplate(p) ==
    LET r == run[p]
        c(res) == Call("ReindexOne", "IndexGetTemplate", r.alias, Empty, res, {})
    IN
    /\ r.pc = "get_template"
    /\ \/ run' = [run EXCEPT ![p] = Failed(r, c("fail"))]
       \/ /\ r.alias \in DOMAIN templates
          /\ run' = [run EXCEPT ![p] =
                IF ~templates[r.alias].hasIndex
                THEN \* Settings["index"] is nil: the type assertion panics
                     Finished(Issued(r, c("ok")), "panic")
                ELSE [Issued(r, c("ok")) EXCEPT
                        !.pc = "put_settings",
                        !.seconds = TemplateSetting(templates[r.alias], "refresh_interval"),
                        !.replicas = TemplateSetting(templates[r.alias], "number_of_replicas")]]
    /\ UNCHANGED <<indices, templates, files, clock, budget>>

\* elasdx.go:193-215
ReindexOne_PutSettings(p) ==
    LET r == run[p]
        c(res) == Call("ReindexOne", "IndexPutSettings", r.newIndex, Empty, res, {})
    IN
    /\ r.pc = "put_settings"
    /\ \/ /\ run' = [run EXCEPT ![p] = Failed(r, c("fail"))]
          /\ UNCHANGED indices
       \/ /\ r.newIndex \in IndexNames
          /\ indices' = ES_PutSettings(indices, r.newIndex,
                            [refresh_interval |-> r.seconds, number_of_replicas |-> r.replicas])
          /\ run' = [run EXCEPT ![p] =
                IF ~r.noUpdateAlias
                THEN EnterUpdateAlias(Issued(r, c("ok")), r.alias, r.newIndex)
                ELSE ReindexOneReturn(Issued(r, c("ok")))]
    /\ UNCHANGED <<templates, files, clock, budget>>

(***************************************************************************)
(* UpdateAlias (elasdx.go:218-260)                                         *)
(***************************************************************************)
\* elasdx.go:219-222; errors.Wrapf of a nil error is nil
UpdateAlias_IndexExists(p) ==
    LET r == run[p]
        exists == r.newIndex \in IndexNames
        c(res) == Call("UpdateAlias", "IndexExists", r.newIndex, Empty, res,
                       IF res = "ok" /\ exists THEN {r.newIndex} ELSE {})
    IN
    /\ r.pc = "ua_index_exists"
    /\ \/ run' = [run EXCEPT ![p] = Failed(r, c("fail"))]
       \/ /\ ~exists
          /\ run' = [run EXCEPT ![p] = UpdateAliasReturn(Issued(r, c("ok")))]
       \/ /\ exists
          /\ run' = [run EXCEPT ![p] = [Issued(r, c("ok")) EXCEPT !.pc = "ua_alias_lookup"]]
    /\ UNCHANGED <<indices, templates, files, clock, budget>>

\* elasdx.go:224-228, 240-245
UpdateAlias_AliasLookup(p) ==
    LET r == run[p]
        found == IndicesByAlias(indices, r.alias)
        c(res) == Call("UpdateAlias", "Aliases", r.alias, Empty, res, IF res = "ok" THEN found ELSE {})
    IN
    /\ r.pc = "ua_alias_lookup"
    /\ \/ run' = [run EXCEPT ![p] = Failed(r, c("fail"))]
       \/ /\ found = {}
          /\ run' = [run EXCEPT ![p] = [Issued(r, c("notfound")) EXCEPT !.pc = "ua_alias_add"]]
       \/ /\ found # {}
          /\ run' = [run EXCEPT ![p] =
                [Issued(r, c("ok")) EXCEPT !.pc = "ua_alias_remove", !.indicesFromAlias = found]]
    /\ UNCHANGED <<indices, templates, files, clock, budget>>

\* elasdx.go:228-239: one iteration of the removal loop
UpdateAlias_AliasRemove(p) ==
    LET r == run[p] IN
    /\ r.pc = "ua_alias_remove"
    /\ \E index \in r.indicesFromAlias :
          LET c(res) == Call("UpdateAlias", "AliasRemove", index, r.alias, res, {})
              rest == r.indicesFromAlias \ {index}
          IN
          \/ /\ run' = [run EXCEPT ![p] = Failed(r, c("fail"))]
             /\ UNCHANGED indices
          \/ /\ index \in IndexNames
             /\ r.alias \in indices[index].aliases
             /\ indices' = ES_AliasRemove(indices, index, r.alias)
             /\ run' = [run EXCEPT ![p] =
                   [Issued(r, c("ok")) EXCEPT
                      !.indicesFromAlias = rest,
                      !.pc = IF rest = {} THEN "ua_alias_add" ELSE "ua_alias_remove"]]
    /\ UNCHANGED <<templates, files, clock, budget>>

\* elasdx.go:247-259
UpdateAlias_AliasAdd(p) ==
    LET r == run[p]
        c(res) == Call("UpdateAlias", "AliasAdd", r.newIndex, r.alias, res, {})
    IN
    /\ r.pc = "ua_alias_add"
    /\ \/ /\ run' = [run EXCEPT ![p] = Failed(r, c("fail"))]
          /\ UNCHANGED indices
       \/ /\ r.newIndex \in IndexNames
          /\ indices' = ES_AliasAdd(indices, r.newIndex, r.alias)
          /\ run' = [run EXCEPT ![p] = UpdateAliasReturn(Issued(r, c("ok")))]
    /\ UNCHANGED <<templates, files, clock, budget>>

\* cli UpdateAlias(): update-alias --alias A --dest-index I
BeginUpdateAlias(p) ==
    /\ \E alias \in AliasNames, dest \in DestNames \cup IndexNames :
          run' = [run EXCEPT ![p] =
                     EnterUpdateAlias([IdleRun EXCEPT !.cmd = "update_alias"], alias, dest)]
    /\ budget' = budget - 1
    /\ UNCHANGED <<indices, templates, files, clock>>

StartUpdateAlias(p) == MayStart(p) /\ BeginUpdateAlias(p)

(***************************************************************************)
(* cli Reindex(), directory of template files ("Multiple indexes")         *)
(***************************************************************************)
\* the flags a directory run passes on: --bulk-indexing, --extra-suffix
ReindexDirCommandLines ==
    {ReindexFlags(b, FALSE, Empty, s, Empty, FALSE, FALSE) : b \in BOOLEAN, s \in ExtraSuffixes}

\* UpdateTemplatesAndCreateNewIndices (elasdx.go:101-126)
StartReindexDir(p) ==
    /\ MayStart(p)
    /\ \E dir \in Dirs, f \in ReindexDirCommandLines :
          run' = [run EXCEPT ![p] =
                     NextTemplate([WithFlags(IdleRun, f) EXCEPT !.cmd = "reindex_dir",
                                                                !.dir = dir,
                                                                !.dirTodo = dir])]
    /\ budget' = budget - 1
    /\ UNCHANGED <<indices, templates, files, clock>>

\* ReindexAll (elasdx.go:280-288): the next entry of the map, in any order;
\* ReindexOne is called with versionExternal, noUpdateAlias, bulkIndexing = false
ReindexAll(p) ==
    LET r == run[p] IN
    /\ r.pc = "reindex_all"
    /\ \/ /\ r.mapTodo = {}
          /\ run' = [run EXCEPT ![p] = Finished(r, "ok")]
       \/ \E alias \in r.mapTodo :
             run' = [run EXCEPT ![p] =
                        EnterReindexOne([r EXCEPT !.mapTodo = @ \ {alias},
                                                  !.noUpdateAlias = FALSE,
                                                  !.bulkIndexing = FALSE],
                                        alias, r.aliasToNewIndex[alias])]
    /\ UNCHANGED <<indices, templates, files, clock, budget>>

(***************************************************************************)
(* Cleanup: CleanupOne (elasdx.go:290-320), CleanupAll (elasdx.go:322-336) *)
(***************************************************************************)
EnterCleanupOne(r, indexTemplateName) ==
    [r EXCEPT !.pc = "index_names", !.index = indexTemplateName, !.matches = << >>, !.i = 0]

\* CleanupAll: the loop over the files of the directory
NextCleanup(r) ==
    IF r.dirTodo = << >>
    THEN Finished(r, "ok")
    ELSE EnterCleanupOne([r EXCEPT !.dirTodo = Tail(@)],
                         TrimSuffix(Head(r.dirTodo).name, DotJson))

\* CleanupOne returns nil to its caller
CleanupOneReturn(r) ==
    IF r.cmd = "cleanup_file" THEN Finished(r, "ok") ELSE NextCleanup(r)

\* the loop of elasdx.go:306 running one iteration too many
CleanupLoop_OffByOne(r) ==
    IF r.i <= Len(r.matches) - r.maxHistory
    THEN [r EXCEPT !.pc = "delete_index"]
    ELSE CleanupOneReturn(r)

\* elasdx.go:306: the loop condition i < len(matches)-maxHistory
CleanupLoop(r) ==
    IF r.i < Len(r.matches) - r.maxHistory
    THEN [r EXCEPT !.pc = "delete_index"]
    ELSE CleanupOneReturn(r)

\* every index name taken as a match
Matches_All(names, indexTemplateName) == SortSet(names)

\* elasdx.go:296-304: the names with the prefix, sorted
Matches(names, indexTemplateName) ==
    SortSet({index \in names : HasPrefix(index, indexTemplateName)})

StartCleanupFile(p) ==
    /\ MayStart(p)
    /\ \E name \in AliasNames, n \in MaxHistories :
          run' = [run EXCEPT ![p] =
                     EnterCleanupOne([IdleRun EXCEPT !.cmd = "cleanup_file",
                                                     !.maxHistory = n], name)]
    /\ budget' = budget - 1
    /\ UNCHANGED <<indices, templates, files, clock>>

StartCleanupDir(p) ==
    /\ MayStart(p)
    /\ \E dir \in Dirs, n \in MaxHistories :
          run' = [run EXCEPT ![p] =
                     NextCleanup([IdleRun EXCEPT !.cmd = "cleanup_dir", !.maxHistory = n,
                                                 !.dir = dir, !.dirTodo = dir])]
    /\ budget' = budget - 1
    /\ UNCHANGED <<indices, templates, files, clock>>

\* elasdx.go:291-306
CleanupOne_IndexNames(p) ==
    LET r == run[p]
        c(res) == Call("CleanupOne", "IndexNames", r.index, Empty, res, IF res = "ok" THEN IndexNames ELSE {})
    IN
    /\ r.pc = "index_names"
    /\ \/ run' = [run EXCEPT ![p] = Failed(r, c("fail"))]
       \/ run' = [run EXCEPT ![p] =
                     CleanupLoop([Issued(r, c("ok")) EXCEPT
                                     !.matches = Matches(IndexNames, r.index)])]
    /\ UNCHANGED <<indices, templates, files, clock, budget>>

\* elasdx.go:306-317: one iteration of the deletion loop
CleanupOne_DeleteIndex(p) ==
    LET r == run[p] IN
    /\ r.pc = "delete_index"
    /\ \/ \* matches[i] with i beyond the slice: index out of range
          /\ r.i >= Len(r.matches)
          /\ run' = [run EXCEPT ![p] = Finished(r, "panic")]
          /\ UNCHANGED indices
       \/ /\ r.i < Len(r.matches)
          /\ LET name == r.matches[r.i + 1]
                 c(res) == Call("CleanupOne", "DeleteIndex", name, Empty, res, {})
             IN  \/ /\ run' = [run EXCEPT ![p] = Failed(r, c("fail"))]
                    /\ UNCHANGED indices
                 \/ /\ name \in IndexNames
                    /\ indices' = ES_DeleteIndex(indices, name)
                    /\ run' = [run EXCEPT ![p] =
                                  CleanupLoop([Issued(r, c("ok")) EXCEPT !.i = @ + 1])]
    /\ UNCHANGED <<templates, files, clock, budget>>

(***************************************************************************)
(* The command exits                                                       *)
(***************************************************************************)
Exit(p) ==
    /\ run[p].pc = "done"
    /\ run' = [run EXCEPT ![p] = IdleRun]
    /\ UNCHANGED <<indices, templates, files, clock, budget>>

(***************************************************************************)
(* Initial states: a cluster as earlier runs of the tool, alone or         *)
(* overlapping, leave it                                                   *)
(***************************************************************************)
ExistingIndex(aliases) ==
    [aliases |-> aliases, refresh_interval |-> "default",
     number_of_replicas |-> "default", allocation |-> "default", docs |-> {"d1"}]

\* the template an index name was generated for
TemplateOf(name) == IF HasPrefix(name, SprintfDash(TA, Empty)) THEN TA ELSE T

\* the initial clusters: the indices that exist, all created at clock 0, and, of
\* these, the aliased ones. Two indices under one alias is what two overlapping
\* runs leave behind.
InitClusters ==
    LET t0 == GenIndexName(T, 0, Empty)
        tx == GenIndexName(T, 0, <<Chr.x>>)
        ta == GenIndexName(TA, 0, Empty)
        C(names, aliased) == [names |-> names, aliased |-> aliased]
    IN  { C({}, {}),
          C({t0, tx}, {t0, tx}),
          C({t0, tx}, {tx}),
          C({t0, ta}, {t0, ta}),
          C({t0, tx, ta}, {t0, ta}) }

Init ==
    /\ \E body \in Bodies : files = [n \in AliasNames |-> body]
    /\ \E c \in InitClusters :
          /\ indices = [i \in c.names |->
                           ExistingIndex(IF i \in c.aliased THEN {TemplateOf(i)} ELSE {})]
          /\ templates = [n \in {TemplateOf(i) : i \in c.names} |-> files[n]]
    /\ clock = 1
    /\ budget = MaxCmds
    /\ run = [p \in Procs |-> IdleRun]

Step(p) ==
    \/ StartReindexFile(p)
    \/ StartReindexDir(p)
    \/ StartCleanupFile(p)
    \/ StartCleanupDir(p)
    \/ StartUpdateAlias(p)
    \/ UpdateTemplateAndCreateNewIndex_PutTemplate(p)
    \/ UpdateTemplateAndCreateNewIndex_IndexExists(p)
    \/ UpdateTemplateAndCreateNewIndex_CreateIndex(p)
    \/ UpdateTemplateAndCreateNewIndex_PutSettings(p)
    \/ UpdateHostAllocation_Reindex(p)
    \/ UpdateHostAllocation_Dest(p)
    \/ ReindexOne_AliasLookup(p)
    \/ ReindexOne_Reindex(p)
    \/ ReindexOne_GetTemplate(p)
    \/ ReindexOne_PutSettings(p)
    \/ UpdateAlias_IndexExists(p)
    \/ UpdateAlias_AliasLookup(p)
    \/ UpdateAlias_AliasRemove(p)
    \/ UpdateAlias_AliasAdd(p)
    \/ ReindexAll(p)
    \/ CleanupOne_IndexNames(p)
    \/ CleanupOne_DeleteIndex(p)
    \/ Exit(p)

\* commands run one at a time, by process 1
Next == Step(1)

Spec == Init /\ [][Next]_vars

\* a fresh cluster: no template, no index, no alias; one more command, the
\* first having to provision it
InitFresh ==
    /\ \E body \in Bodies : files = [n \in AliasNames |-> body]
    /\ indices = << >>
    /\ templates = << >>
    /\ clock = 1
    /\ budget = MaxCmds + 1
    /\ run = [p \in Procs |-> IdleRun]

SpecFresh == InitFresh /\ [][Next]_vars

(***************************************************************************)
(* The provisioner called twice, by two processes one after the other: the *)
(* first stays at its end while the second runs, the template files being  *)
(* edited in between                                                       *)
(***************************************************************************)
\* a caller of the exported UpdateTemplateAndCreateNewIndex (elasdx.go:30)
StartProvision(p) ==
    /\ MayStart(p)
    /\ \E name \in AliasNames, newIndexName \in {Empty} \cup DestNames,
          bulkIndexing \in BOOLEAN, extraSuffix \in ExtraSuffixes :
          run' = [run EXCEPT ![p] =
                     EnterProvision([IdleRun EXCEPT !.cmd = "provision",
                                                    !.newIndexName = newIndexName,
                                                    !.bulkIndexing = bulkIndexing,
                                                    !.extraSuffix = extraSuffix],
                                    JsonFile(name))]
    /\ budget' = budget - 1
    /\ UNCHANGED <<indices, templates, files, clock>>

Provision(p) ==
    \/ StartProvision(p)
    \/ UpdateTemplateAndCreateNewIndex_PutTemplate(p)
    \/ UpdateTemplateAndCreateNewIndex_IndexExists(p)
    \/ UpdateTemplateAndCreateNewIndex_CreateIndex(p)
    \/ UpdateTemplateAndCreateNewIndex_PutSettings(p)

\* a template file is edited between the two calls
EditFile ==
    /\ budget > 0
    /\ run[1].pc = "done" /\ run[2].pc = "idle"
    /\ \E n \in AliasNames :
          \E body \in Bodies \ {files[n]} : files' = [files EXCEPT ![n] = body]
    /\ UNCHANGED <<indices, templates, clock, budget, run>>

InitTwice ==
    /\ \E body \in Bodies : files = [n \in AliasNames |-> body]
    /\ indices = << >>
    /\ templates = << >>
    /\ clock = 0
    /\ budget = MaxCmds + 1
    /\ run = [p \in Procs |-> IdleRun]

NextTwice ==
    \/ Provision(1)
    \/ run[1].pc = "done" /\ Provision(2)
    \/ EditFile

SpecTwice == InitTwice /\ [][NextTwice]_vars

(***************************************************************************)
(* Two runs at the same time against one cluster: each cluster call is one *)
(* step, the calls of the two processes interleave in any order            *)
(***************************************************************************)
\* a command may start while another process is in the middle of one
MayStartConcurrently(p) ==
    /\ budget > 0
    /\ run[p].pc = "idle"

Concurrent(p) ==
    \/ MayStartConcurrently(p) /\ BeginReindexFile(p)
    \/ MayStartConcurrently(p) /\ BeginUpdateAlias(p)
    \/ UpdateTemplateAndCreateNewIndex_PutTemplate(p)
    \/ UpdateTemplateAndCreateNewIndex_IndexExists(p)
    \/ UpdateTemplateAndCreateNewIndex_CreateIndex(p)
    \/ UpdateTemplateAndCreateNewIndex_PutSettings(p)
    \/ UpdateHostAllocation_Reindex(p)
    \/ UpdateHostAllocation_Dest(p)
    \/ ReindexOne_AliasLookup(p)
    \/ ReindexOne_Reindex(p)
    \/ ReindexOne_GetTemplate(p)
    \/ ReindexOne_PutSettings(p)
    \/ UpdateAlias_IndexExists(p)
    \/ UpdateAlias_AliasLookup(p)
    \/ UpdateAlias_AliasRemove(p)
    \/ UpdateAlias_AliasAdd(p)

InitConc ==
    /\ \E body \in Bodies : files = [n \in AliasNames |-> body]
    /\ \E c \in InitClusters :
          /\ indices = [i \in c.names |->
                           ExistingIndex(IF i \in c.aliased THEN {TemplateOf(i)} ELSE {})]
          /\ templates = [n \in {TemplateOf(i) : i \in c.names} |-> files[n]]
    /\ clock = 1
    /\ budget = MaxCmds + 1
    /\ run = [p \in Procs |-> IdleRun]

NextConc == \E p \in Procs : Concurrent(p)

SpecConc == InitConc /\ [][NextConc]_vars

(***************************************************************************)
(* Properties                                                              *)
(***************************************************************************)
Last(q) == q[Len(q)]

CleanupCmds == {"cleanup_file", "cleanup_dir"}
ReindexCmds == {"reindex_file", "reindex_dir"}

\* the positions of the run once UpdateAlias (and with it ReindexOne) has returned
ReturnedPcs == {"done", "reindex_all", "dest_host_allocation"}

\* UpdateAlias has just returned nil
UpdateAliasReturnedOk(r) ==
    /\ r.calls # << >>
    /\ Last(r.calls).fn = "UpdateAlias"
    /\ Last(r.calls).res = "ok"
    /\ r.pc \in ReturnedPcs
    /\ r.result # "error"

\* C1: whenever UpdateAlias (called directly or by ReindexOne with the alias
\* update not suppressed) returns without error, the alias is associated with
\* exactly one index, the given new index.
C1_AliasIsExactlyNewIndex ==
    \A p \in Procs :
        UpdateAliasReturnedOk(run[p])
            => IndicesByAlias(indices, run[p].alias) = {run[p].newIndex}

\* the k-th call of the run opens a CleanupOne; its deletions follow up to the next one
CleanupDeletions(calls, k) ==
    LET ends == {j \in (k + 1)..Len(calls) : calls[j].op = "IndexNames"}
        last == IF ends = {} THEN Len(calls)
                ELSE (CHOOSE j \in ends : \A j2 \in ends : j <= j2) - 1
    IN  SubSeq(calls, k + 1, last)

\* C2: a successful CleanupOne(name, N), N >= 0, deletes exactly the first
\* max(0, m - N) of the m name-sorted indices with the prefix `name` and leaves
\* the last N: an index with the prefix is deleted iff at least N indices with
\* the prefix are greater than it, and the deletions go in ascending order.
C2_CleanupKeepsLastN ==
    \A p \in Procs :
        LET r == run[p] IN
        (r.cmd \in CleanupCmds /\ r.pc = "done" /\ r.result = "ok" /\ r.maxHistory >= 0) =>
            \A k \in 1..Len(r.calls) :
                r.calls[k].op = "IndexNames" =>
                    LET before == r.calls[k].ret
                        name == r.calls[k].target
                        matching == {m \in before : HasPrefix(m, name)}
                        expected == {m \in matching :
                                        Cardinality({g \in matching : StrLess(m, g)})
                                            >= r.maxHistory}
                        dels == CleanupDeletions(r.calls, k)
                    IN  /\ Cardinality(expected) =
                               IF Cardinality(matching) > r.maxHistory
                               THEN Cardinality(matching) - r.maxHistory ELSE 0
                        /\ Len(dels) = Cardinality(expected)
                        /\ {dels[j].target : j \in 1..Len(dels)} = expected
                        /\ \A j \in 1..Len(dels) : dels[j].op = "DeleteIndex" /\ dels[j].res = "ok"
                        /\ \A j \in 1..(Len(dels) - 1) : StrLess(dels[j].target, dels[j + 1].target)
                        /\ expected \cap IndexNames = {}
                        /\ r.cmd = "cleanup_file" => IndexNames = before \ expected

\* a cleanup of three indices keeping one: the two oldest are deleted
C2_Witness ==
    \E p \in Procs :
        LET r == run[p] IN
        /\ r.cmd = "cleanup_file" /\ r.pc = "done" /\ r.result = "ok"
        /\ r.maxHistory = 1
        /\ Len(r.calls) = 3
        /\ Cardinality(IndexNames) = 1

\* C3: a cleanup with max-history >= 1 never deletes the index the alias
\* (the template name the cleanup runs for) is currently associated with.
C3_CleanupKeepsCurrentIndex ==
    [][\A p \in Procs :
          (run[p].cmd \in CleanupCmds /\ run[p].maxHistory >= 1) =>
              \A n \in IndexNames :
                  IndicesByAlias(indices, run[p].index) = {n} => n \in DOMAIN indices']_vars

\* the run is inside UpdateAlias, past its alias lookup, or has left it with an error
InSwap(r) ==
    \/ r.pc \in {"ua_alias_remove", "ua_alias_add"}
    \/ /\ r.pc = "done" /\ r.result = "error" /\ r.calls # << >>
       /\ Last(r.calls).fn = "UpdateAlias"
       /\ Last(r.calls).op \in {"AliasRemove", "AliasAdd"}

\* what the alias lookup of the UpdateAlias in progress returned
SwapLookup(r) ==
    LET ks == {k \in 1..Len(r.calls) : r.calls[k].fn = "UpdateAlias" /\ r.calls[k].op = "Aliases"}
    IN  r.calls[CHOOSE k \in ks : \A k2 \in ks : k2 <= k].ret

\* C4: the swap is atomic: between the first and the last call of UpdateAlias,
\* and after a swap that failed part-way, an alias that had an index before the
\* swap still has one.
C4_AliasNeverEmptyDuringSwap ==
    \A p \in Procs :
        (InSwap(run[p]) /\ SwapLookup(run[p]) # {})
            => IndicesByAlias(indices, run[p].alias) # {}

\* the positions of the calls that open a ReindexOne: its alias lookup
ReindexOneStarts(calls) ==
    {k \in 1..Len(calls) : calls[k].fn = "ReindexOne" /\ calls[k].op = "Aliases"}

\* the position of the last call issued by (or after) the ReindexOne opened at k
SegEnd(calls, k) ==
    LET later == {j \in ReindexOneStarts(calls) : j > k}
    IN  IF later = {} THEN Len(calls) ELSE (CHOOSE j \in later : \A j2 \in later : j <= j2) - 1

\* the destination of the ReindexOne opened at call k
SegNewIndex(r, k) ==
    IF r.cmd = "reindex_dir" THEN r.aliasToNewIndex[r.calls[k].target] ELSE r.newIndex

IsAliasChange(c) == c.fn = "UpdateAlias" /\ c.op \in {"AliasRemove", "AliasAdd"}
IsCopy(c) == c.fn = "ReindexOne" /\ c.op = "Reindex"
IsRestore(c) == c.fn = "ReindexOne" /\ c.op = "IndexPutSettings"

\* C5: within one ReindexOne the alias is not removed from an old index nor
\* added to the new one before the copy from every source index has succeeded
\* and the settings restore, when performed, has succeeded; the order is
\* lookup, copies, restore, removals, addition.
C5_SwapAfterCopyAndRestore ==
    \A p \in Procs :
        LET r == run[p]
            calls == r.calls
        IN  \A k \in ReindexOneStarts(calls) :
                \A j \in k..SegEnd(calls, k) :
                    IsAliasChange(calls[j]) =>
                        LET sources == IF r.remoteSrc = Empty THEN calls[k].ret
                                       ELSE {calls[k].target}
                            before == (k + 1)..(j - 1)
                            after == (j + 1)..SegEnd(calls, k)
                        IN  /\ calls[k].res \in {"ok", "notfound"}
                            /\ \A src \in sources :
                                  \E c \in before :
                                      /\ IsCopy(calls[c]) /\ calls[c].res = "ok"
                                      /\ calls[c].target = src
                                      /\ calls[c].arg = SegNewIndex(r, k)
                            /\ ~(r.noUpdateAlias /\ r.bulkIndexing) =>
                                  \E c \in before :
                                      /\ IsRestore(calls[c]) /\ calls[c].res = "ok"
                                      /\ \A c2 \in before : IsCopy(calls[c2]) => c2 < c
                            /\ \A c \in after : ~IsCopy(calls[c]) /\ ~IsRestore(calls[c])
                            /\ calls[j].op = "AliasAdd" =>
                                  \A c \in after : ~IsAliasChange(calls[c])

\* a reindex from two aliased indices, completed: two copies, then the swap
C5_Witness ==
    \E p \in Procs :
        LET r == run[p] IN
        /\ r.cmd = "reindex_file" /\ r.pc = "done" /\ r.result = "ok"
        /\ Cardinality({k \in 1..Len(r.calls) : IsCopy(r.calls[k])}) = 2
        /\ \E k \in 1..Len(r.calls) : IsRestore(r.calls[k])
        /\ Last(r.calls).op = "AliasAdd"

\* C6: when the alias lookup of ReindexOne reports not-found and there is no
\* remote source, ReindexOne does not fail on it, issues no reindex call, goes
\* on to the settings restore and, unless suppressed, adds the alias to the new
\* index: the run ends with alias -> new index.
C6_NotFoundSkipsCopy ==
    \A p \in Procs :
        LET r == run[p]
            calls == r.calls
            restore == ~(r.noUpdateAlias /\ r.bulkIndexing)
        IN  \A k \in ReindexOneStarts(calls) :
                (calls[k].res = "notfound" /\ r.remoteSrc = Empty) =>
                    /\ \A j \in k..SegEnd(calls, k) : calls[j].op # "Reindex"
                    /\ k = Len(calls) =>
                          /\ r.result # "error"
                          /\ r.pc \in IF restore THEN {"get_template"} ELSE ReturnedPcs
                    /\ (k < SegEnd(calls, k) /\ restore) =>
                          calls[k + 1].op = "IndexGetTemplate"
                    /\ (SegEnd(calls, k) = Len(calls) /\ UpdateAliasReturnedOk(r)) =>
                          IndicesByAlias(indices, calls[k].target) = {SegNewIndex(r, k)}

\* a first-time run, completed: no copy, the alias points at the new index
C6_Witness ==
    \E p \in Procs :
        LET r == run[p] IN
        /\ r.cmd = "reindex_file" /\ r.pc = "done" /\ r.result = "ok"
        /\ r.remoteSrc = Empty /\ ~r.noUpdateAlias
        /\ \E k \in ReindexOneStarts(r.calls) : r.calls[k].res = "notfound"
        /\ \E k \in 1..Len(r.calls) : IsRestore(r.calls[k])
        /\ IndicesByAlias(indices, r.alias) = {r.newIndex}

\* C7: provisioning and reindex-and-swap never delete an index: a step of a
\* reindex or update-alias run keeps every existing index, and after a swap the
\* indices the alias pointed at still exist, un-aliased.
C7_OnlyCleanupDeletes ==
    /\ [](\A p \in Procs :
            (UpdateAliasReturnedOk(run[p]) /\ Last(run[p].calls).op = "AliasAdd") =>
                \A old \in SwapLookup(run[p]) :
                    /\ old \in IndexNames
                    /\ old # run[p].newIndex => run[p].alias \notin indices[old].aliases)
    /\ [][(\A p \in Procs : run[p].cmd \notin CleanupCmds)
             => IndexNames \subseteq DOMAIN indices']_vars

\* a re-run, completed: the alias has moved off an old index, which still exists
C7_Witness ==
    \E p \in Procs :
        LET r == run[p] IN
        /\ r.cmd = "reindex_file" /\ r.pc = "done" /\ r.result = "ok"
        /\ Last(r.calls).op = "AliasAdd"
        /\ \E old \in SwapLookup(r) :
              old # r.newIndex /\ old \in IndexNames /\ indices[old].aliases = {}

\* ReindexOne has just returned nil
ReindexOneReturnedOk(r) ==
    /\ r.cmd \in ReindexCmds
    /\ r.calls # << >>
    /\ Last(r.calls).fn \in {"ReindexOne", "UpdateAlias"}
    /\ Last(r.calls).res \in {"ok", "notfound"}
    /\ r.pc \in ReturnedPcs
    /\ r.result \notin {"error", "panic"}

\* what a template declares for a setting, the cluster default when nothing
Declared(tpl, key) ==
    IF tpl.hasIndex /\ tpl[key] # "absent" THEN tpl[key] ELSE "default"

\* C8: after a successful ReindexOne the destination's refresh_interval and
\* number_of_replicas are the template's (the default where it declares none);
\* the restore is skipped exactly when no-update-alias and bulk-indexing are
\* both set, and then the bulk values stay.
C8_SettingsRestored ==
    \A p \in Procs :
        LET r == run[p]
            calls == r.calls
        IN  ReindexOneReturnedOk(r) =>
                LET k == CHOOSE k \in ReindexOneStarts(calls) : SegEnd(calls, k) = Len(calls)
                    restored == \E j \in k..Len(calls) : IsRestore(calls[j])
                    dest == indices[r.newIndex]
                IN  /\ r.newIndex \in IndexNames
                    /\ restored <=> ~(r.noUpdateAlias /\ r.bulkIndexing)
                    /\ IF restored
                       THEN /\ dest.refresh_interval =
                                   Declared(templates[r.alias], "refresh_interval")
                            /\ dest.number_of_replicas =
                                   Declared(templates[r.alias], "number_of_replicas")
                       ELSE /\ dest.refresh_interval = "-1"
                            /\ dest.number_of_replicas = "0"

\* a bulk-mode run, completed: the index carries the template's values again
C8_Witness ==
    \E p \in Procs :
        LET r == run[p] IN
        /\ r.cmd = "reindex_file" /\ r.pc = "done" /\ r.result = "ok"
        /\ r.bulkIndexing /\ ~r.noUpdateAlias
        /\ \E k \in 1..Len(r.calls) : r.calls[k].fn = "UpdateTemplateAndCreateNewIndex"
                                         /\ r.calls[k].op = "IndexPutSettings"
        /\ indices[r.newIndex].refresh_interval = "10s"
        /\ indices[r.newIndex].number_of_replicas = "1"

\* C9: when the template declares no refresh_interval or no number_of_replicas
\* (or has no index settings at all), the restore sets the missing value to
\* null and ReindexOne neither fails nor crashes on it.
C9_MissingSettingsAreNull ==
    \A p \in Procs :
        LET r == run[p] IN
        (r.calls # << >> /\ Last(r.calls).op = "IndexGetTemplate" /\ Last(r.calls).res = "ok") =>
            LET tpl == templates[r.alias] IN
            /\ r.result = "none"
            /\ r.pc = "put_settings"
            /\ (~tpl.hasIndex \/ tpl.refresh_interval = "absent") => r.seconds = JsonNull
            /\ (~tpl.hasIndex \/ tpl.number_of_replicas = "absent") => r.replicas = JsonNull

\* C10: the first cluster call that fails (other than an alias lookup's
\* not-found) ends the run with an error: it is the run's last call, it changes
\* nothing in the cluster, and nothing is issued or changed afterwards.
C10_FirstFailureAborts ==
    /\ [](\A p \in Procs :
            \A k \in 1..Len(run[p].calls) :
                run[p].calls[k].res = "fail" =>
                    /\ k = Len(run[p].calls)
                    /\ run[p].pc = "done"
                    /\ run[p].result = "error")
    /\ [][\A p \in Procs :
            /\ (Len(run'[p].calls) > Len(run[p].calls) /\ Last(run'[p].calls).res = "fail")
                  => UNCHANGED Cluster
            /\ run[p].result = "error"
                  => UNCHANGED Cluster /\ run'[p].calls \in {run[p].calls, << >>}]_vars

\* a directory batch stopped by a failed call while aliases were still to be handled
C10_Witness ==
    \E p \in Procs :
        LET r == run[p] IN
        /\ r.cmd = "reindex_dir" /\ r.pc = "done" /\ r.result = "error"
        /\ r.mapTodo # {}
        /\ Last(r.calls).res = "fail"
        /\ Len(r.calls) > 1

IsProvisionCall(c, op) == c.fn = "UpdateTemplateAndCreateNewIndex" /\ c.op = op

\* UpdateTemplateAndCreateNewIndex has returned for the template: the value it returned
ProvisionReturned(r, index) ==
    IF r.cmd = "reindex_dir" THEN index \in DOMAIN r.aliasToNewIndex ELSE r.newIndex # Empty
ProvisionResult(r, index) ==
    IF r.cmd = "reindex_dir" THEN r.aliasToNewIndex[index] ELSE r.newIndex

\* C11: index creation in the provisioner is idempotent: when IndexExists
\* answers that the resolved name exists, no create call is issued, the function
\* does not fail on it and returns that name; when it answers that it does not
\* exist, the next call creates it, and it is created exactly once.
C11_CreateIsIdempotent ==
    \A p \in Procs :
        LET r == run[p]
            calls == r.calls
        IN  \A k \in 1..Len(calls) :
                (IsProvisionCall(calls[k], "IndexExists") /\ calls[k].res = "ok") =>
                    LET name == calls[k].target
                        index == calls[k - 1].target
                        creates == {j \in 1..Len(calls) :
                                       IsProvisionCall(calls[j], "CreateIndex")
                                           /\ calls[j].target = name}
                    IN  /\ IsProvisionCall(calls[k - 1], "IndexPutTemplate")
                        /\ calls[k - 1].arg = name
                        /\ ProvisionReturned(r, index) => ProvisionResult(r, index) = name
                        /\ IF calls[k].ret # {}
                           THEN /\ creates = {}
                                /\ k = Len(calls) =>
                                      IF r.bulkIndexing
                                      THEN r.pc = "bulk_settings" /\ r.result = "none"
                                      ELSE ProvisionReturned(r, index)
                           ELSE /\ creates \subseteq {k + 1}
                                /\ k = Len(calls) => r.pc = "create_index"
                                /\ ProvisionReturned(r, index) =>
                                      /\ creates = {k + 1}
                                      /\ calls[k + 1].res = "ok"

\* a reindex onto an index that already exists, completed: nothing was created
C11_Witness ==
    \E p \in Procs :
        LET r == run[p] IN
        /\ r.cmd = "reindex_file" /\ r.pc = "done" /\ r.result = "ok"
        /\ \E k \in 1..Len(r.calls) :
              /\ IsProvisionCall(r.calls[k], "IndexExists")
              /\ r.calls[k].ret = {r.newIndex}
        /\ \A k \in 1..Len(r.calls) : r.calls[k].op # "CreateIndex"
        /\ r.newIndex \in IndexNames

\* the successful pushes of a run: positions of its IndexPutTemplate calls
Pushes(r) ==
    {k \in 1..Len(r.calls) :
        IsProvisionCall(r.calls[k], "IndexPutTemplate") /\ r.calls[k].res = "ok"}

\* C12: provisioning the same template file twice leaves one stored template
\* under the file's base name, equal to the body pushed last, every push
\* replacing that template and no other; the two resolved index names are
\* distinct whenever both are generated and their timestamps differ, a name
\* being the given one or else <name>-<timestamp>[-<suffix>].
C12_TemplateReplacedNamesDistinct ==
    /\ [](/\ \A k \in Pushes(run[2]) :
                LET n == run[2].calls[k].target
                IN  n \in DOMAIN templates /\ templates[n] = files[n]
          /\ \A p \in Procs : \A k \in Pushes(run[p]) :
                LET c == run[p].calls[k]
                IN  \/ c.ret = {} /\ c.arg \in DestNames
                    \/ \E now \in c.ret :
                          c.arg = c.target \o <<Chr.dash>> \o FormatTime(now)
                                    \o IF run[p].extraSuffix = Empty THEN Empty
                                       ELSE <<Chr.dash>> \o run[p].extraSuffix
          /\ \A k \in Pushes(run[1]) : \A j \in Pushes(run[2]) :
                LET c1 == run[1].calls[k]
                    c2 == run[2].calls[j]
                IN  (c1.target = c2.target /\ c1.ret # {} /\ c2.ret # {} /\ c1.ret # c2.ret)
                        => c1.arg # c2.arg)
    /\ [][\A p \in Procs :
              (Len(run'[p].calls) > Len(run[p].calls) /\ Len(run'[p].calls) \in Pushes(run'[p])) =>
                  LET n == Last(run'[p].calls).target
                  IN  /\ DOMAIN templates' = DOMAIN templates \cup {n}
                      /\ templates'[n] = files[n]
                      /\ \A m \in DOMAIN templates \ {n} : templates'[m] = templates[m]]_vars

\* the same file provisioned twice, edited in between, a second later: the
\* stored template is the second body and the two index names differ
C12_Witness ==
    /\ run[1].pc = "done" /\ run[1].result = "ok"
    /\ run[2].pc = "done" /\ run[2].result = "ok"
    /\ run[1].index = run[2].index
    /\ run[1].calls[1].ret = {0} /\ run[2].calls[1].ret = {1}
    /\ run[1].newIndex # run[2].newIndex
    /\ {run[1].newIndex, run[2].newIndex} \subseteq IndexNames
    /\ templates[run[2].index] = files[run[2].index]
    /\ indices[run[1].newIndex].refresh_interval # indices[run[2].newIndex].refresh_interval

\* C13: CleanupOne(name, N) changes nothing but the existence of indices whose
\* name starts with `name`: in every step of it, succeeding, failing or
\* crashing, no index appears, an index that disappears has the prefix, every
\* index that stays keeps its aliases, settings and documents, and the
\* templates stay as they are.
C13_CleanupOnlyRemovesPrefixed ==
    [][\A p \in Procs :
          (run[p].cmd \in CleanupCmds /\ run[p].pc \in {"index_names", "delete_index"}) =>
              /\ templates' = templates
              /\ DOMAIN indices' \subseteq DOMAIN indices
              /\ \A i \in DOMAIN indices :
                    IF i \in DOMAIN indices'
                    THEN indices'[i] = indices[i]
                    ELSE HasPrefix(i, run[p].index)]_vars

\* a cleanup that deleted an index while an index without the prefix exists
C13_Witness ==
    \E p \in Procs :
        LET r == run[p] IN
        /\ r.cmd = "cleanup_file" /\ r.pc = "done" /\ r.result = "ok"
        /\ \E k \in 1..Len(r.calls) : r.calls[k].op = "DeleteIndex" /\ r.calls[k].res = "ok"
        /\ \E i \in IndexNames : ~HasPrefix(i, r.index) /\ indices[i].aliases # {}

\* the template names of the files of a listing: its entries that are neither
\* hidden nor a directory, without the .json suffix, in the listing's order
TemplateFiles(dir) ==
    LET IsFile(e) == e.name[1] # Chr.dot /\ ~e.isDir
        kept == SelectSeq(dir, IsFile)
    IN  [k \in 1..Len(kept) |-> TrimSuffix(kept[k].name, DotJson)]

\* the positions of the run's IndexPutTemplate calls, in order
RECURSIVE PushSeq(_, _)
PushSeq(calls, k) ==
    IF k > Len(calls) THEN << >>
    ELSE (IF IsProvisionCall(calls[k], "IndexPutTemplate") THEN <<k>> ELSE << >>)
             \o PushSeq(calls, k + 1)

ProvisionPcs == {"put_template", "index_exists", "create_index", "bulk_settings"}

\* UpdateTemplatesAndCreateNewIndices has returned its mapping
MappingReturned(r) ==
    /\ r.pc \notin ProvisionPcs
    /\ (r.pc = "done" /\ r.result = "error") =>
          \E k \in 1..Len(r.calls) : r.calls[k].fn \in {"ReindexOne", "UpdateAlias"}

\* C14: in directory mode the provisioner processes the files that are neither
\* hidden nor a directory, in the listing's order, and no other entry; the
\* mapping it returns has exactly one entry per such file, keyed by the file
\* name minus .json and valued with the index resolved for that file; when a
\* file fails, the run ends with an error and nothing uses a mapping.
C14_DirectoryProvisioning ==
    \A p \in Procs :
        LET r == run[p]
            calls == r.calls
        IN  r.cmd = "reindex_dir" =>
              \A names \in {TemplateFiles(r.dir)}, pushes \in {PushSeq(calls, 1)} :
                /\ r.pc \in ProvisionPcs => \E k \in 1..Len(names) : r.index = names[k]
                /\ Len(pushes) <= Len(names)
                /\ \A k \in 1..Len(pushes) : calls[pushes[k]].target = names[k]
                /\ MappingReturned(r) =>
                      /\ Len(pushes) = Len(names)
                      /\ DOMAIN r.aliasToNewIndex = {names[k] : k \in 1..Len(names)}
                      /\ \A k \in 1..Len(pushes) :
                            /\ calls[pushes[k]].res = "ok"
                            /\ r.aliasToNewIndex[names[k]] = calls[pushes[k]].arg
                            /\ calls[pushes[k] + 1].target = calls[pushes[k]].arg
                /\ ~MappingReturned(r) =>
                      /\ r.mapTodo = {}
                      /\ r.pc = "done" => r.result = "error"
                      /\ \A k \in 1..Len(calls) : calls[k].fn = "UpdateTemplateAndCreateNewIndex"

\* the mapping of a directory with a hidden entry, a sub-directory and two
\* template files, just returned: two entries
C14_Witness ==
    \E p \in Procs :
        LET r == run[p] IN
        /\ r.cmd = "reindex_dir" /\ r.pc = "reindex_all"
        /\ Len(r.dir) = 4
        /\ r.mapTodo = {T, TA}
        /\ \A a \in r.mapTodo : r.aliasToNewIndex[a] \in IndexNames

\* the alias a call of ReindexOne or UpdateAlias works for, given the new index
ConcernsAlias(c, alias, newIndex) ==
    \/ c.op \in {"Aliases", "IndexGetTemplate"} /\ c.target = alias
    \/ c.op = "Reindex" /\ c.arg = newIndex
    \/ c.op \in {"IndexPutSettings", "IndexExists"} /\ c.target = newIndex
    \/ c.op = "AliasRemove" /\ c.arg = alias
    \/ c.op = "AliasAdd" /\ c.target = newIndex /\ c.arg = alias

\* C15: in directory-mode reindex every template of the batch is provisioned
\* before any reindex, settings-restore or alias call; the mapping is then
\* handled one alias at a time, each alias once and to its end before the next
\* starts; while the batch is being provisioned, and so when a file fails, no
\* alias changes.
C15_ProvisionAllThenOneAliasAtATime ==
    /\ [](\A p \in Procs :
            LET r == run[p]
                calls == r.calls
                names == TemplateFiles(r.dir)
            IN  r.cmd = "reindex_dir" =>
                    /\ \A j \in 1..Len(calls) :
                          calls[j].fn \in {"ReindexOne", "UpdateAlias"} =>
                              /\ \A n \in 1..Len(names) :
                                    \E k \in 1..(j - 1) :
                                        /\ IsProvisionCall(calls[k], "IndexPutTemplate")
                                        /\ calls[k].res = "ok"
                                        /\ calls[k].target = names[n]
                              /\ \A k \in j..Len(calls) :
                                    calls[k].fn # "UpdateTemplateAndCreateNewIndex"
                    /\ \A k \in ReindexOneStarts(calls) :
                          /\ \A j \in k..SegEnd(calls, k) :
                                ConcernsAlias(calls[j], calls[k].target, SegNewIndex(r, k))
                          /\ \A k2 \in ReindexOneStarts(calls) :
                                k2 > k =>
                                    /\ calls[k2].target # calls[k].target
                                    /\ calls[k2 - 1].op = "AliasAdd"
                                    /\ calls[k2 - 1].res = "ok")
    /\ [][\A p \in Procs :
            (run[p].cmd = "reindex_dir"
                /\ \A k \in 1..Len(run'[p].calls) :
                       run'[p].calls[k].fn = "UpdateTemplateAndCreateNewIndex")
                => \A a \in AliasNames :
                       IndicesByAlias(indices', a) = IndicesByAlias(indices, a)]_vars

\* a directory batch of two templates, completed: both provisioned, then each
\* alias reindexed and swapped in turn
C15_Witness ==
    \E p \in Procs :
        LET r == run[p] IN
        /\ r.cmd = "reindex_dir" /\ r.pc = "done" /\ r.result = "ok"
        /\ Cardinality(ReindexOneStarts(r.calls)) = 2
        /\ \E k \in 1..Len(r.calls) : IsCopy(r.calls[k])
        /\ \A a \in AliasNames : IndicesByAlias(indices, a) = {r.aliasToNewIndex[a]}

\* C16: directory-mode cleanup runs over the same file set as directory-mode
\* reindex: the name prefixes CleanupAll cleans are the template names of the
\* files the provisioner processes (no hidden entry, no sub-directory), and it
\* deletes no index outside these prefixes.
C16_CleanupSameFileSet ==
    \A p \in Procs :
        LET r == run[p]
            names == TemplateFiles(r.dir)
            provisioned == {names[k] : k \in 1..Len(names)}
        IN  r.cmd = "cleanup_dir" =>
                /\ r.pc \in {"index_names", "delete_index"} => r.index \in provisioned
                /\ \A k \in 1..Len(r.calls) :
                      /\ r.calls[k].op = "IndexNames" => r.calls[k].target \in provisioned
                      /\ r.calls[k].op = "DeleteIndex" =>
                            \E a \in provisioned : HasPrefix(r.calls[k].target, a)
                /\ (r.pc = "done" /\ r.result = "ok") =>
                      provisioned = {r.calls[k].target : k \in 1..Len(r.calls)}

\* the copy phase of the ReindexOne opened at call k is over without a failure
CopiesDone(r, k) ==
    LET e == SegEnd(r.calls, k)
    IN  /\ r.calls[k].res \in {"ok", "notfound"}
        /\ ~(e = Len(r.calls) /\ r.pc = "reindex")
        /\ ~(IsCopy(r.calls[e]) /\ r.calls[e].res = "fail")

\* C17: the copies issued by ReindexOne: with no remote source, one reindex call
\* per index associated with the alias at lookup time, all of them; with a
\* remote source, exactly one reindex call, from the remote index named like
\* the alias, issued also when the local alias is not found, and none from a
\* locally aliased index. Every copy targets the new index.
C17_CopySources ==
    \A p \in Procs :
        LET r == run[p]
            calls == r.calls
        IN  \A k \in ReindexOneStarts(calls) :
              \A copies \in {{j \in k..SegEnd(calls, k) : IsCopy(calls[j])}} :
                LET remote == r.remoteSrc # Empty
                    sources == IF remote THEN {calls[k].target} ELSE calls[k].ret
                IN  /\ \A j \in copies :
                          /\ calls[j].arg = SegNewIndex(r, k)
                          /\ calls[j].target \in sources
                          /\ calls[j].ret = IF remote THEN {r.remoteSrc} ELSE {}
                          /\ \A j2 \in copies : j2 # j => calls[j2].target # calls[j].target
                    /\ CopiesDone(r, k) =>
                          /\ {calls[j].target : j \in copies} = sources
                          /\ \A j \in copies : calls[j].res = "ok"
                          /\ remote => Cardinality(copies) = 1

\* a reindex from a remote cluster into a cluster without the alias, completed:
\* one copy, from the remote index
C17_Witness ==
    \E p \in Procs :
        LET r == run[p] IN
        /\ r.cmd = "reindex_file" /\ r.pc = "done" /\ r.result = "ok"
        /\ r.remoteSrc # Empty
        /\ \E k \in ReindexOneStarts(r.calls) : r.calls[k].res = "notfound"
        /\ Cardinality({k \in 1..Len(r.calls) : IsCopy(r.calls[k])}) = 1
        /\ indices[r.newIndex].docs = RemoteDocs

\* C18: when the destination index does not exist, UpdateAlias returns an
\* error and neither removes nor adds an alias.
C18_MissingDestinationIsAnError ==
    \A p \in Procs :
        LET r == run[p]
            calls == r.calls
        IN  \A k \in 1..Len(calls) :
                (calls[k].fn = "UpdateAlias" /\ calls[k].op = "IndexExists"
                    /\ calls[k].res = "ok" /\ calls[k].ret = {}) =>
                    /\ r.pc = "done"
                    /\ r.result = "error"
                    /\ \A j \in (k + 1)..Len(calls) : ~IsAliasChange(calls[j])

\* C19: ReindexOne never issues a reindex call whose source index is its
\* destination index.
C19_NoCopyOntoItself ==
    \A p \in Procs :
        \A k \in 1..Len(run[p].calls) :
            LET c == run[p].calls[k]
            IN  (IsCopy(c) /\ c.ret = {}) => c.target # c.arg

\* the names the provisioner generates for a template
GeneratedFor(name) ==
    {name \o <<Chr.dash>> \o FormatTime(c) \o s :
        c \in 0..MaxClock, s \in {Empty} \cup {<<Chr.dash>> \o x : x \in ExtraSuffixes \ {Empty}}}

\* C20: cleanup for template name A never deletes an index that was
\* provisioned for another template name B, also when A is a prefix of B.
C20_CleanupSparesOtherTemplates ==
    \A p \in Procs :
        LET r == run[p]
            calls == r.calls
        IN  r.cmd \in CleanupCmds =>
                \A k \in 1..Len(calls) :
                    calls[k].op = "IndexNames" =>
                        LET dels == CleanupDeletions(calls, k)
                        IN  \A j \in 1..Len(dels) :
                                \A B \in AliasNames \ {calls[k].target} :
                                    dels[j].target \notin GeneratedFor(B)

\* C22: for every integer max-history CleanupOne terminates normally and reads
\* only positions inside the match list: with max-history at least the number
\* of matches it deletes nothing, and with a negative max-history it deletes
\* every match and returns without a fault.
C22_CleanupTerminatesNormally ==
    \A p \in Procs :
        LET r == run[p] IN
        r.cmd \in CleanupCmds =>
            /\ r.result # "panic"
            /\ r.pc = "delete_index" => r.i < Len(r.matches)
            /\ (r.pc = "done" /\ r.result = "ok") =>
                  \A k \in 1..Len(r.calls) :
                      r.calls[k].op = "IndexNames" =>
                          LET matching == {m \in r.calls[k].ret : HasPrefix(m, r.calls[k].target)}
                              dels == CleanupDeletions(r.calls, k)
                          IN  /\ r.maxHistory >= Cardinality(matching) => dels = << >>
                              /\ r.maxHistory < 0 =>
                                    {dels[j].target : j \in 1..Len(dels)} = matching

\* the run has returned success after swapping its alias
SwappedOk(r) ==
    /\ r.cmd \in {"reindex_file", "update_alias"}
    /\ r.pc = "done" /\ r.result = "ok"
    /\ \E k \in 1..Len(r.calls) : r.calls[k].op = "AliasAdd" /\ r.calls[k].res = "ok"

\* C21: when two reindex or update-alias runs for the same alias execute at the
\* same time against one cluster, their cluster calls interleaved in any
\* order, then once both have swapped the alias and returned success the
\* alias is associated with exactly one index.
C21_ConcurrentRunsLeaveOneIndex ==
    (SwappedOk(run[1]) /\ SwappedOk(run[2]) /\ run[1].alias = run[2].alias)
        => Cardinality(IndicesByAlias(indices, run[1].alias)) = 1

====
